---- MODULE Spec2Model ----
(***************************************************************************)
(* Model of the Laminar Markets Rust SDK (laminar-markets/sdk-rust).       *)
(*                                                                         *)
(*   Spec      the transaction submitter: LaminarClient::submit_tx and     *)
(*             LaminarClient::build_and_submit_tx (src/src/lib.rs) run     *)
(*             against a ledger that keeps strict per-account sequence     *)
(*             numbers.                                                    *)
(*   SpecProj  the order state projector: LaminarClient::get_order and the *)
(*             event fetch helpers (src/src/lib.rs) run against an         *)
(*             append-only account event log.                              *)
(***************************************************************************)
EXTENDS Integers, Sequences, FiniteSets, TLC

VARIABLES
    \* ---- transaction submitter -------------------------------------
    pc,               \* position of the client inside build_and_submit_tx
    i,                \* loop variable of build_and_submit_tx
    sequence_number,  \* self.account.sequence_number (LocalAccount)
    tx_seq,           \* sequence number of the signed transaction in hand
    api_error,        \* error code of the rejection being handled
    result,           \* value returned by build_and_submit_tx
    ledger_seq,       \* the ledger's sequence number of the account
    mempool,          \* accepted, not yet committed transactions
    tx_events,        \* events of the transaction the attempt saw finalized
    calls,            \* build_and_submit_tx calls started so far
    attempts,         \* submit_tx calls made by the current call
    accepted,         \* attempts of the current call the ledger accepted
    executed,         \* transactions of the current call the ledger ran
    first,            \* record of the first attempt of the current call
    last,             \* record of the latest finished attempt
    seq_writes,       \* writes to sequence_number by the current call
    start_seq,        \* sequence_number when the current call started
    after_ok,         \* attempts of the current call begun after a success
    \* ---- order state projector -------------------------------------
    place_log,        \* place_order_events of the account
    amend_log,        \* amend_order_events of the account
    cancel_log,       \* cancel_order_events of the account
    fill_log,         \* fill_events of the account
    query,            \* the latest query and its argument
    reply,            \* what the latest query returned
    \* ---- order book decoder ----------------------------------------
    level_json,       \* wire form of one price level (tree node)
    level,            \* what deserializing level_json gave
    side_json,        \* wire form of one book side (tree with tombstones)
    side,             \* what deserializing side_json gave
    bids_resource,    \* OrderBookBids resource of the book owner, if any
    asks_resource,    \* OrderBookAsks resource of the book owner, if any
    book              \* what the latest fetch_orderbook returned

subVars == <<pc, i, sequence_number, tx_seq, api_error, result, ledger_seq,
             mempool, tx_events, calls, attempts, accepted, executed, first,
             last, seq_writes, start_seq, after_ok>>
projVars == <<place_log, amend_log, cancel_log, fill_log, query, reply>>
decVars == <<level_json, level, side_json, side, bids_resource, asks_resource,
             book>>
vars == <<subVars, projVars, decVars>>

(***************************************************************************)
(* Bounds of the model.                                                    *)
(***************************************************************************)
MaxSeq == 2        \* largest sequence number the ledger hands out
MaxCalls == 2      \* build_and_submit_tx calls on one client
MaxTxEvents == 2   \* events carried by one finalized transaction
MaxLog == 3        \* entries of the account's event log, all fields together
MaxEntries == 2    \* entries of the node array of one order queue
MaxNodes == 2      \* nodes of the node array of one book side

Max(a, b) == IF a >= b THEN a ELSE b

SeqsUpTo(S, n) == UNION {[1..k -> S] : k \in 0..n}

Last(s) == s[Len(s)]

(***************************************************************************)
(* Program constants.                                                      *)
(***************************************************************************)
SUBMIT_ATTEMPTS == 10

(***************************************************************************)
(* The ledger and its replies.  The ledger is the remote collaborator; it  *)
(* keeps one strictly increasing sequence number per account and holds at  *)
(* most one transaction per sequence number.                               *)
(***************************************************************************)
laminar == "laminar"                 \* self.laminar, the contract address

\* Errors of aptos_client.submit: RestError::Api with an AptosErrorCode
\* ("OtherApi" stands for every code submit_tx does not name), or an error
\* that is not RestError::Api ("Transport").
RestErrors ==
    {"InvalidTransactionUpdate", "SequenceNumberTooOld", "VmError", "OtherApi",
     "Transport"}
IsApi(code) == code # "Transport"

\* Faulty variant: the `_` arm resynchronises as well.
RetryableMut == {"InvalidTransactionUpdate", "SequenceNumberTooOld", "VmError",
                 "OtherApi"}
\* The first match arm of submit_tx: the codes that resynchronise.
Retryable == {"InvalidTransactionUpdate", "SequenceNumberTooOld", "VmError"}
IsRetryable(code) == IsApi(code) /\ code \in Retryable

\* Field names each variant of LaminarEvent needs to deserialize.
CreateOrderBookFields ==
    {"book_id", "creator", "base", "quote", "price_decimals", "size_decimals",
     "min_size_amount", "base_decimals", "quote_decimals", "time"}
PlaceOrderFields ==
    {"book_id", "order_id", "side", "price", "size", "time_in_force",
     "post_only", "time"}
AmendOrderFields ==
    {"book_id", "order_id", "amend_id", "side", "price", "size", "time"}
CancelOrderFields ==
    {"book_id", "order_id", "cancel_id", "side", "reason", "time"}
FillEventFields ==
    {"book_id", "order_id", "side", "price", "fill_size", "fee", "fee_rate",
     "time", "remaining_size", "is_maker"}

\* serde(untagged): the first variant, in declaration order, whose fields
\* are all present; none is a decode error.
LaminarEvent(data) ==
    IF CreateOrderBookFields \subseteq data.fields
      THEN [variant |-> "CreateOrderBook", time |-> data.time]
    ELSE IF PlaceOrderFields \subseteq data.fields
      THEN [variant |-> "PlaceOrder", time |-> data.time]
    ELSE IF AmendOrderFields \subseteq data.fields
      THEN [variant |-> "AmendOrder", time |-> data.time]
    ELSE IF CancelOrderFields \subseteq data.fields
      THEN [variant |-> "CancelOrder", time |-> data.time]
    ELSE IF FillEventFields \subseteq data.fields
      THEN [variant |-> "FillEvent", time |-> data.time]
    ELSE [variant |-> "Error", time |-> 0]

\* Payloads a finalized transaction may carry.
PlaceData == [fields |-> PlaceOrderFields, time |-> 1]
FillData == [fields |-> FillEventFields, time |-> 2]
OtherData == [fields |-> {"amount"}, time |-> 3]

\* MoveType of an event: a struct published at an address, or not a struct.
StructAt(a) == [kind |-> "Struct", address |-> a]
NotStruct == [kind |-> "U64", address |-> "none"]

\* Events a finalized transaction may carry.
TxEvents ==
    {[typ |-> StructAt(laminar), data |-> PlaceData],
     [typ |-> StructAt(laminar), data |-> FillData],
     [typ |-> StructAt(laminar), data |-> OtherData],
     [typ |-> StructAt("other"), data |-> FillData],
     [typ |-> NotStruct, data |-> OtherData]}

\* Faulty variant: the filter forgets the address.
IsLaminarStructMut(e) == e.typ.kind = "Struct"
\* The filter closure of submit_tx.
IsLaminarStruct(e) == e.typ.kind = "Struct" /\ e.typ.address = laminar

\* filter(..).map(from_value): the decoded events, before collect().
DecodedEvents(evs) ==
    LET kept == SelectSeq(evs, IsLaminarStruct)
    IN  [k \in 1..Len(kept) |-> LaminarEvent(kept[k].data)]

\* collect::<Result<Vec<_>, _>>() fails when one decode failed.
DecodeFails(evs) ==
    \E k \in 1..Len(DecodedEvents(evs)) : DecodedEvents(evs)[k].variant = "Error"

(***************************************************************************)
(* Values of the submitter.                                                *)
(***************************************************************************)
NoResult == [tag |-> "None", kind |-> "None", att |-> -1, seq |-> -1,
             events |-> <<>>]
Ok(seq, events) == [tag |-> "Ok", kind |-> "Ok", att |-> i, seq |-> seq,
                    events |-> events]
Err(kind, att) == [tag |-> "Err", kind |-> kind, att |-> att, seq |-> -1,
                   events |-> <<>>]

NoAttempt == [kind |-> "None", att |-> -1, local_before |-> -1,
              fetched |-> -1, seq |-> -1]
Attempt(kind, fetched) ==
    [kind |-> kind, att |-> i, local_before |-> sequence_number,
     fetched |-> fetched, seq |-> tx_seq]

\* Faulty variant: signing advances the counter.
SignTransactionMut(seq) == seq + 1
\* LocalAccount::sign_transaction takes &self: the counter is not advanced.
SignTransaction(seq) == seq

\* Faulty variant: a fetched number that differs from the local one is
\* taken as it is.
ResyncMut(seq_num, acc_seq_num) ==
    IF seq_num # acc_seq_num THEN seq_num ELSE acc_seq_num + 1
\* *acc_seq_num = max(seq_num, *acc_seq_num + 1)
Resync(seq_num, acc_seq_num) == Max(seq_num, acc_seq_num + 1)

\* Faulty variant: the last attempt's error is not returned from the loop.
IsLastAttemptMut(k) == FALSE
\* if i == SUBMIT_ATTEMPTS - 1
IsLastAttempt(k) == k = SUBMIT_ATTEMPTS - 1

ProjUnchanged == UNCHANGED <<projVars, decVars>>

\* Bookkeeping shared by every way an attempt ends.
Finished(rec) ==
    /\ last' = rec
    /\ first' = IF attempts = 1 THEN rec ELSE first

\* Err(e) arm of build_and_submit_tx: return on the last attempt, else loop.
AttemptErr(kind) ==
    IF IsLastAttempt(i)
      THEN /\ result' = Err(kind, i)
           /\ pc' = "done"
           /\ i' = i
      ELSE /\ result' = result
           /\ pc' = "loop"
           /\ i' = i + 1

\* Faulty variant: the Ok(lt) arm does not return.
ReturnOkMut(lt) ==
    /\ result' = result
    /\ pc' = "loop"
    /\ i' = i + 1
\* Ok(lt) arm of build_and_submit_tx: return Ok(lt).
ReturnOk(lt) ==
    /\ result' = lt
    /\ pc' = "done"
    /\ i' = i

(***************************************************************************)
(* Actions of the submitter.                                               *)
(***************************************************************************)
\* A caller invokes build_and_submit_tx(payload).
build_and_submit_tx ==
    /\ pc \in {"idle", "done"}
    /\ calls < MaxCalls
    /\ calls' = calls + 1
    /\ pc' = "loop"
    /\ i' = 0
    /\ result' = NoResult
    /\ attempts' = 0
    /\ accepted' = 0
    /\ executed' = 0
    /\ first' = NoAttempt
    /\ last' = NoAttempt
    /\ seq_writes' = 0
    /\ after_ok' = 0
    /\ start_seq' = sequence_number
    /\ tx_events' = <<>>
    /\ UNCHANGED <<sequence_number, tx_seq, api_error, ledger_seq, mempool>>
    /\ ProjUnchanged

\* for i in 0..SUBMIT_ATTEMPTS, then the head of submit_tx: build and sign
\* with the local sequence number.  Past the range, the fallback error.
LoopHead ==
    /\ pc = "loop"
    /\ IF i < SUBMIT_ATTEMPTS
         THEN /\ tx_seq' = sequence_number
              /\ sequence_number' = SignTransaction(sequence_number)
              /\ seq_writes' = seq_writes
                    + (IF sequence_number' # sequence_number THEN 1 ELSE 0)
              /\ attempts' = attempts + 1
              /\ after_ok' = after_ok + (IF last.kind = "Ok" THEN 1 ELSE 0)
              /\ pc' = "submit"
              /\ tx_events' = <<>>
              /\ UNCHANGED result
         ELSE /\ result' = Err("failed submitting tx", -1)
              /\ pc' = "done"
              /\ UNCHANGED <<tx_seq, sequence_number, seq_writes, attempts,
                             after_ok, tx_events>>
    /\ UNCHANGED <<i, api_error, ledger_seq, mempool, calls, accepted,
                   executed, first, last, start_seq>>
    /\ ProjUnchanged

\* aptos_client.submit returns Ok: the ledger took the transaction.
SubmitAccepted ==
    /\ pc = "submit"
    /\ tx_seq >= ledger_seq
    /\ tx_seq < MaxSeq
    /\ \A t \in mempool : t.seq # tx_seq
    /\ mempool' = mempool \cup {[seq |-> tx_seq, call |-> calls]}
    /\ accepted' = accepted + 1
    /\ pc' = "wait"
    /\ UNCHANGED <<i, sequence_number, tx_seq, api_error, result, ledger_seq,
                   tx_events, calls, attempts, executed, first, last,
                   seq_writes, start_seq, after_ok>>
    /\ ProjUnchanged

\* aptos_client.submit returns Err(e): the match of submit_tx on e.
SubmitRejected ==
    /\ pc = "submit"
    /\ \E code \in RestErrors :
         /\ code = "SequenceNumberTooOld" => tx_seq < ledger_seq
         /\ code = "InvalidTransactionUpdate" =>
                \E t \in mempool : t.seq = tx_seq
         /\ IsRetryable(code) => sequence_number < MaxSeq
         /\ IF IsRetryable(code)
              THEN /\ api_error' = code
                   /\ pc' = "resync"
                   /\ UNCHANGED <<i, result, first, last>>
              ELSE /\ Finished(Attempt(code, -1))
                   /\ AttemptErr(code)
                   /\ UNCHANGED api_error
    /\ UNCHANGED <<sequence_number, tx_seq, ledger_seq, mempool, tx_events,
                   calls, attempts, accepted, executed, seq_writes, start_seq,
                   after_ok>>
    /\ ProjUnchanged

\* self.get_sequence_number() answered: resynchronise, then Err(anyhow!(a)).
ResyncFetched ==
    /\ pc = "resync"
    /\ LET seq_num == ledger_seq
       IN  /\ sequence_number' = Resync(seq_num, sequence_number)
           /\ Finished(Attempt(api_error, seq_num))
    /\ seq_writes' = seq_writes + 1
    /\ AttemptErr(api_error)
    /\ UNCHANGED <<tx_seq, api_error, ledger_seq, mempool, tx_events, calls,
                   attempts, accepted, executed, start_seq, after_ok>>
    /\ ProjUnchanged

\* self.get_sequence_number() failed: `?` returns its error.
ResyncFetchFailed ==
    /\ pc = "resync"
    /\ Finished(Attempt("FetchFailed", -1))
    /\ AttemptErr("FetchFailed")
    /\ UNCHANGED <<sequence_number, tx_seq, api_error, ledger_seq, mempool,
                   tx_events, calls, attempts, accepted, executed, seq_writes,
                   start_seq, after_ok>>
    /\ ProjUnchanged

\* The ledger commits the transaction whose turn it is.
LedgerCommit ==
    /\ \E t \in mempool :
         /\ t.seq = ledger_seq
         /\ mempool' = mempool \ {t}
         /\ executed' = executed + (IF t.call = calls THEN 1 ELSE 0)
    /\ ledger_seq' = ledger_seq + 1
    /\ UNCHANGED <<pc, i, sequence_number, tx_seq, api_error, result,
                   tx_events, calls, attempts, accepted, first, last,
                   seq_writes, start_seq, after_ok>>
    /\ ProjUnchanged

\* wait_for_transaction returned the committed transaction; the rest of
\* submit_tx filters and decodes its events.
WaitFinalized ==
    /\ pc = "wait"
    /\ tx_seq < ledger_seq
    /\ \E user \in BOOLEAN, evs \in SeqsUpTo(TxEvents, MaxTxEvents) :
         IF ~user
           THEN /\ Finished(Attempt("NotUserTx", -1))
                /\ AttemptErr("NotUserTx")
                /\ UNCHANGED tx_events
         ELSE IF DecodeFails(evs)
           THEN /\ Finished(Attempt("DecodeFailed", -1))
                /\ AttemptErr("DecodeFailed")
                /\ UNCHANGED tx_events
         ELSE /\ Finished(Attempt("Ok", -1))
              /\ ReturnOk(Ok(tx_seq, DecodedEvents(evs)))
              /\ tx_events' = evs
    /\ UNCHANGED <<sequence_number, tx_seq, api_error, ledger_seq, mempool,
                   calls, attempts, accepted, executed, seq_writes, start_seq,
                   after_ok>>
    /\ ProjUnchanged

\* wait_for_transaction returned an error: `?` returns it.
WaitFailed ==
    /\ pc = "wait"
    /\ Finished(Attempt("WaitFailed", -1))
    /\ AttemptErr("WaitFailed")
    /\ UNCHANGED <<sequence_number, tx_seq, api_error, ledger_seq, mempool,
                   tx_events, calls, attempts, accepted, executed, seq_writes,
                   start_seq, after_ok>>
    /\ ProjUnchanged


(***************************************************************************)
(* The account event log and its wire format.  Every u64 field travels as  *)
(* a decimal string, modelled as a sequence of characters.                 *)
(***************************************************************************)
OrderIds == {1, 2}
BookIds == {1, 2}

Digits == {"0", "1", "2", "3", "4", "5", "6", "7", "8", "9"}
DigitValue(c) ==
    CASE c = "0" -> 0 [] c = "1" -> 1 [] c = "2" -> 2 [] c = "3" -> 3
      [] c = "4" -> 4 [] c = "5" -> 5 [] c = "6" -> 6 [] c = "7" -> 7
      [] c = "8" -> 8 [] c = "9" -> 9

\* str::parse::<u64> on the short strings of the model: -1 stands for Err.
RECURSIVE ParseDigits(_, _)
ParseDigits(str, acc) ==
    IF str = <<>> THEN acc
    ELSE IF Head(str) \notin Digits THEN -1
    ELSE ParseDigits(Tail(str), acc * 10 + DigitValue(Head(str)))
deserialize_from_str(str) == IF str = <<>> THEN -1 ELSE ParseDigits(str, 0)

\* Raw entries the ledger may append to each event log field.
\* An order rests in one book: every event of an order carries that book's id.
BookOf(order_id) == order_id
RawPlaceEvents ==
    {[order_id |-> o, book_id |-> BookOf(o), side |-> sd,
      price |-> <<"1", "0", "0">>, size |-> <<"1", "0">>, post_only |-> FALSE] :
        o \in OrderIds, sd \in {"Bid", "Ask"}}
RawAmendEvents ==
    {[order_id |-> o, book_id |-> BookOf(o), price |-> pr,
      size |-> <<"1", "2">>] :
        o \in OrderIds, pr \in {<<"1", "0", "1">>, <<"9", "9">>}}
RawCancelEvents == {[order_id |-> o, book_id |-> BookOf(o)] : o \in OrderIds}
RawFillEvents ==
    {[order_id |-> o, book_id |-> BookOf(o), remaining_size |-> rs] :
        o \in OrderIds, rs \in {<<"0">>, <<"4">>, <<"7">>}}

\* Deserialize impls of the event structs (derive(Deserialize)).
PlaceOrderEvent(raw) ==
    LET price == deserialize_from_str(raw.price)
        size == deserialize_from_str(raw.size)
    IN  [ok |-> price >= 0 /\ size >= 0,
         val |-> [order_id |-> raw.order_id, book_id |-> raw.book_id,
                  side |-> raw.side, price |-> price, size |-> size,
                  post_only |-> raw.post_only]]
AmendOrderEvent(raw) ==
    LET price == deserialize_from_str(raw.price)
        size == deserialize_from_str(raw.size)
    IN  [ok |-> price >= 0 /\ size >= 0,
         val |-> [order_id |-> raw.order_id, book_id |-> raw.book_id,
                  price |-> price, size |-> size]]
CancelOrderEvent(raw) ==
    [ok |-> TRUE, val |-> [order_id |-> raw.order_id, book_id |-> raw.book_id]]
FillEvent(raw) ==
    LET remaining_size == deserialize_from_str(raw.remaining_size)
    IN  [ok |-> remaining_size >= 0,
         val |-> [order_id |-> raw.order_id, book_id |-> raw.book_id,
                  remaining_size |-> remaining_size]]

(***************************************************************************)
(* Event fetch and the projector.                                          *)
(***************************************************************************)
\* T::deserialize for the event type behind an event store field
\* (T::event_store_field()).
Deserialize(field, raw) ==
    CASE field = "place_order_events" -> PlaceOrderEvent(raw)
      [] field = "amend_order_events" -> AmendOrderEvent(raw)
      [] field = "cancel_order_events" -> CancelOrderEvent(raw)
      [] field = "fill_events" -> FillEvent(raw)

\* get_dex_events::<T>: decode every entry of the field, all or nothing.
get_dex_events(log, field) ==
    LET decoded == [k \in 1..Len(log) |-> Deserialize(field, log[k])]
    IN  IF \E k \in 1..Len(log) : ~decoded[k].ok
          THEN [ok |-> FALSE, val |-> <<>>]
          ELSE [ok |-> TRUE, val |-> [k \in 1..Len(log) |-> decoded[k].val]]

\* The filter closures of the client: |e| id == &e.order_id and
\* |e| &e.book_id == id.
ByOrder(order_id) == [field |-> "order_id", id |-> order_id]
ByBook(book_id) == [field |-> "book_id", id |-> book_id]
Holds(predicate, e) ==
    IF predicate.field = "order_id" THEN predicate.id = e.order_id
    ELSE e.book_id = predicate.id

\* The list `result` that get_filtered_dex_events builds.
Filtered(s, predicate) == SelectSeq(s, LAMBDA e : Holds(predicate, e))

\* Variant that returns the filtered list `result`.
get_filtered_dex_eventsMut(log, field, predicate) ==
    LET res == get_dex_events(log, field)
        filtered == Filtered(res.val, predicate)
    IN  [ok |-> res.ok, val |-> filtered, evals |-> Len(res.val)]
\* get_filtered_dex_events: builds the filtered list, returns the fetched one.
\* evals counts the calls of the predicate, one per fetched entry.
get_filtered_dex_events(log, field, predicate) ==
    LET res == get_dex_events(log, field)
        filtered == Filtered(res.val, predicate)
    IN  [ok |-> res.ok, val |-> res.val, evals |-> Len(res.val)]

\* Iterator::find over a decoded list: index of the first match, 0 for None.
Find(s, predicate) ==
    IF \E k \in 1..Len(s) : Holds(predicate, s[k])
      THEN CHOOSE k \in 1..Len(s) :
             Holds(predicate, s[k])
                 /\ \A j \in 1..(k - 1) : ~Holds(predicate, s[j])
      ELSE 0

get_place_event(places, order_id) ==
    LET res == get_dex_events(places, "place_order_events")
        at == Find(res.val, ByOrder(order_id))
    IN  IF ~res.ok THEN [ok |-> FALSE, error |-> "decode"]
        ELSE IF at = 0 THEN [ok |-> FALSE, error |-> "order not found"]
        ELSE [ok |-> TRUE, val |-> res.val[at]]

get_amends_internal(amends, order_id) ==
    get_filtered_dex_events(amends, "amend_order_events", ByOrder(order_id))

get_cancel_event(cancels, order_id) ==
    LET res == get_dex_events(cancels, "cancel_order_events")
    IN  [ok |-> res.ok, is_some |-> Find(res.val, ByOrder(order_id)) # 0]

get_fills_internal(fills, order_id) ==
    get_filtered_dex_events(fills, "fill_events", ByOrder(order_id))

\* fetch_all_place_events .. fetch_all_fill_events(book_id)
fetch_all_place_events(places, book_id) ==
    get_filtered_dex_events(places, "place_order_events", ByBook(book_id))
fetch_all_amend_events(amends, book_id) ==
    get_filtered_dex_events(amends, "amend_order_events", ByBook(book_id))
fetch_all_cancel_events(cancels, book_id) ==
    get_filtered_dex_events(cancels, "cancel_order_events", ByBook(book_id))
fetch_all_fill_events(fills, book_id) ==
    get_filtered_dex_events(fills, "fill_events", ByBook(book_id))

\* Faulty variant: the amend events are fetched without looking for the
\* place event.
get_amend_eventsMut(places, amends, order_id) ==
    LET found == get_amends_internal(amends, order_id)
    IN  [ok |-> found.ok, error |-> "decode", val |-> found.val,
         evals |-> found.evals]
\* get_amend_events: the place event must exist, then get_amends_internal.
get_amend_events(places, amends, order_id) ==
    LET place_event == get_place_event(places, order_id)
        found == get_amends_internal(amends, order_id)
    IN  IF place_event.ok
          THEN [ok |-> found.ok, error |-> "decode", val |-> found.val,
                evals |-> found.evals]
          ELSE [ok |-> FALSE, error |-> place_event.error, val |-> <<>>,
                evals |-> 0]

\* get_fill_events: the place event must exist, then get_fills_internal.
get_fill_events(places, fills, order_id) ==
    LET place_event == get_place_event(places, order_id)
        found == get_fills_internal(fills, order_id)
    IN  IF place_event.ok
          THEN [ok |-> found.ok, error |-> "decode", val |-> found.val,
                evals |-> found.evals]
          ELSE [ok |-> FALSE, error |-> place_event.error, val |-> <<>>,
                evals |-> 0]

NoOrder ==
    [id |-> 0, side |-> "None", price |-> -1, size |-> -1, post_only |-> FALSE,
     remaining_size |-> -1, state |-> "None", fills |-> <<>>]
OrderErr(error) ==
    [tag |-> "Err", error |-> error, order |-> NoOrder, events |-> <<>>,
     evals |-> 0]
\* The value of a query that returns a list of events.
EventsReply(found) ==
    IF found.ok
      THEN [tag |-> "Ok", error |-> "", order |-> NoOrder,
            events |-> found.val, evals |-> found.evals]
      ELSE OrderErr(found.error)

\* The value of a fetch_all_*_events call.
FetchReply(found) ==
    IF found.ok
      THEN [tag |-> "Ok", error |-> "", order |-> NoOrder,
            events |-> found.val, evals |-> found.evals]
      ELSE OrderErr("decode")

\* Faulty variant: an order is Closed only when it was cancelled.
StateMut(remaining_size, is_cancelled, has_fills) ==
    IF is_cancelled THEN "Closed"
    ELSE IF has_fills THEN "PartiallyFilled"
    ELSE "Open"
\* The state computed by get_order.
State(remaining_size, is_cancelled, has_fills) ==
    IF remaining_size = 0 \/ is_cancelled THEN "Closed"
    ELSE IF has_fills THEN "PartiallyFilled"
    ELSE "Open"

get_order(places, amends, cancels, fill_events, order_id) ==
    LET place_event == get_place_event(places, order_id)
        amend_events == get_amends_internal(amends, order_id)
        cancel_event == get_cancel_event(cancels, order_id)
        fills == get_fills_internal(fill_events, order_id)
    IN  IF ~place_event.ok THEN OrderErr(place_event.error)
        ELSE IF ~amend_events.ok \/ ~cancel_event.ok \/ ~fills.ok
          THEN OrderErr("decode")
        ELSE
          LET price == IF amend_events.val # <<>>
                         THEN Last(amend_events.val).price
                         ELSE place_event.val.price
              size == IF amend_events.val # <<>>
                        THEN Last(amend_events.val).size
                        ELSE place_event.val.size
              remaining_size == IF fills.val # <<>>
                                  THEN Last(fills.val).remaining_size
                                  ELSE 0
              state == State(remaining_size, cancel_event.is_some,
                             fills.val # <<>>)
          IN  [tag |-> "Ok", error |-> "", events |-> <<>>, evals |-> 0,
               order |-> [id |-> order_id, side |-> place_event.val.side,
                          price |-> price, size |-> size,
                          post_only |-> place_event.val.post_only,
                          remaining_size |-> remaining_size, state |-> state,
                          fills |-> fills.val]]

NoQuery == [op |-> "none", id |-> 0]
NoReply == [tag |-> "None", error |-> "", order |-> NoOrder, events |-> <<>>,
            evals |-> 0]

LogSize == Len(place_log) + Len(amend_log) + Len(cancel_log) + Len(fill_log)

SubUnchanged == UNCHANGED <<subVars, decVars>>

\* A reply describes the log it was computed from; it is dropped when the
\* log grows.
Forget == query' = NoQuery /\ reply' = NoReply

\* The ledger appends an entry to one event log field of the account.
EmitPlaceOrder ==
    /\ LogSize < MaxLog
    /\ \E e \in RawPlaceEvents : place_log' = Append(place_log, e)
    /\ Forget
    /\ UNCHANGED <<amend_log, cancel_log, fill_log>>
    /\ SubUnchanged

EmitAmendOrder ==
    /\ LogSize < MaxLog
    /\ \E e \in RawAmendEvents : amend_log' = Append(amend_log, e)
    /\ Forget
    /\ UNCHANGED <<place_log, cancel_log, fill_log>>
    /\ SubUnchanged

EmitCancelOrder ==
    /\ LogSize < MaxLog
    /\ \E e \in RawCancelEvents : cancel_log' = Append(cancel_log, e)
    /\ Forget
    /\ UNCHANGED <<place_log, amend_log, fill_log>>
    /\ SubUnchanged

EmitFill ==
    /\ LogSize < MaxLog
    /\ \E e \in RawFillEvents : fill_log' = Append(fill_log, e)
    /\ Forget
    /\ UNCHANGED <<place_log, amend_log, cancel_log>>
    /\ SubUnchanged

\* A caller invokes get_order(order_id).
GetOrder ==
    /\ \E order_id \in OrderIds :
         /\ query' = [op |-> "get_order", id |-> order_id]
         /\ reply' = get_order(place_log, amend_log, cancel_log, fill_log,
                               order_id)
    /\ UNCHANGED <<place_log, amend_log, cancel_log, fill_log>>
    /\ SubUnchanged

\* A caller invokes get_place_event(order_id).
GetPlaceEvent ==
    /\ \E order_id \in OrderIds :
         /\ query' = [op |-> "get_place_event", id |-> order_id]
         /\ reply' =
              LET found == get_place_event(place_log, order_id)
              IN  IF found.ok
                    THEN [tag |-> "Ok", error |-> "", order |-> NoOrder,
                          events |-> <<found.val>>, evals |-> 0]
                    ELSE OrderErr(found.error)
    /\ UNCHANGED <<place_log, amend_log, cancel_log, fill_log>>
    /\ SubUnchanged

\* A caller invokes get_amend_events(order_id).
GetAmendEvents ==
    /\ \E order_id \in OrderIds :
         /\ query' = [op |-> "get_amend_events", id |-> order_id]
         /\ reply' = EventsReply(get_amend_events(place_log, amend_log,
                                                  order_id))
    /\ UNCHANGED <<place_log, amend_log, cancel_log, fill_log>>
    /\ SubUnchanged

\* A caller invokes get_fill_events(order_id).
GetFillEvents ==
    /\ \E order_id \in OrderIds :
         /\ query' = [op |-> "get_fill_events", id |-> order_id]
         /\ reply' = EventsReply(get_fill_events(place_log, fill_log,
                                                 order_id))
    /\ UNCHANGED <<place_log, amend_log, cancel_log, fill_log>>
    /\ SubUnchanged

\* A caller invokes one of fetch_all_*_events(book_id).
FetchAllPlaceEvents ==
    /\ \E book_id \in BookIds :
         /\ query' = [op |-> "fetch_all_place_events", id |-> book_id]
         /\ reply' = FetchReply(fetch_all_place_events(place_log, book_id))
    /\ UNCHANGED <<place_log, amend_log, cancel_log, fill_log>>
    /\ SubUnchanged

FetchAllAmendEvents ==
    /\ \E book_id \in BookIds :
         /\ query' = [op |-> "fetch_all_amend_events", id |-> book_id]
         /\ reply' = FetchReply(fetch_all_amend_events(amend_log, book_id))
    /\ UNCHANGED <<place_log, amend_log, cancel_log, fill_log>>
    /\ SubUnchanged

FetchAllCancelEvents ==
    /\ \E book_id \in BookIds :
         /\ query' = [op |-> "fetch_all_cancel_events", id |-> book_id]
         /\ reply' = FetchReply(fetch_all_cancel_events(cancel_log, book_id))
    /\ UNCHANGED <<place_log, amend_log, cancel_log, fill_log>>
    /\ SubUnchanged

FetchAllFillEvents ==
    /\ \E book_id \in BookIds :
         /\ query' = [op |-> "fetch_all_fill_events", id |-> book_id]
         /\ reply' = FetchReply(fetch_all_fill_events(fill_log, book_id))
    /\ UNCHANGED <<place_log, amend_log, cancel_log, fill_log>>
    /\ SubUnchanged

(***************************************************************************)
(* Order book decoder (types/order.rs) and fetch_orderbook (lib.rs).       *)
(***************************************************************************)
\* u64::MAX, the sentinel that ends a queue.  TLC integers are 32 bits wide:
\* the model takes the largest of them, far above every index it uses.
U64_MAX == 2147483647
\* The decimal string of u64::MAX, 18446744073709551615.
U64MaxStr ==
    <<"1", "8", "4", "4", "6", "7", "4", "4", "0", "7", "3", "7", "0", "9",
      "5", "5", "1", "6", "1", "5">>
\* The decimal string of a one-digit index.
IdxStr(k) == <<CHOOSE c \in Digits : DigitValue(c) = k>>

\* What a Deserialize impl returns: a value, an error, or nothing at all
\* when it never returns.
DecodeOk(val) == [tag |-> "Ok", error |-> "", val |-> val]
DecodeErr(error) == [tag |-> "Err", error |-> error, val |-> <<>>]
NeverReturns == [tag |-> "Hang", error |-> "", val |-> <<>>]
NotDecoded == [tag |-> "None", error |-> "", val |-> <<>>]

\* GuardedIdx: value is deserialize_from_str of a decimal string.
GuardedIdx(raw) ==
    IF raw.value = U64MaxStr THEN U64_MAX ELSE deserialize_from_str(raw.value)

\* Order as it rests in a queue entry; state and fills are serde(skip).
RawOrder(o) == [id |-> o, size |-> <<"1", "0">>]
RawOrders == {RawOrder(o) : o \in OrderIds}
Order(raw) ==
    [id |-> raw.id, size |-> deserialize_from_str(raw.size), state |-> "Open",
     fills |-> <<>>]

\* The while loop of OrderPriceLevelVisitor::visit_map.  visited counts the
\* entries pushed so far: a walk that is about to push more entries than
\* the array holds is on a cycle of well-formed entries and never ends.
RECURSIVE Traverse(_, _, _, _)
Traverse(res, current, order_queue, visited) ==
    IF current = U64_MAX THEN DecodeOk(order_queue)
    ELSE IF current >= Len(res.nodes)
      THEN DecodeErr("failed finding order in nodes")
    ELSE IF res.nodes[current + 1].value.vec = <<>>
      THEN DecodeErr("failed fetching order out of option")
    ELSE IF visited >= Len(res.nodes) THEN NeverReturns
    ELSE Traverse(res, GuardedIdx(res.nodes[current + 1].next),
                  Append(order_queue, Order(res.nodes[current + 1].value.vec[1])),
                  visited + 1)

\* Faulty variant: each order met is put in front of the list.
OrderQueueMut(res) ==
    LET walked == Traverse(res, GuardedIdx(res.head), <<>>, 0)
    IN  IF walked.tag # "Ok" THEN walked
        ELSE DecodeOk([k \in 1..Len(walked.val) |->
                         walked.val[Len(walked.val) + 1 - k]])
\* The order list of a queue: the walk from head.
OrderQueue(res) == Traverse(res, GuardedIdx(res.head), <<>>, 0)

\* Deserialize for OrderPriceLevel: key is the price, value the queue.
OrderPriceLevel(raw) ==
    LET price == deserialize_from_str(raw.key)
        orders == OrderQueue(raw.value)
    IN  IF price < 0 THEN DecodeErr("failed parsing string as u64")
        ELSE IF orders.tag # "Ok" THEN orders
        ELSE DecodeOk([price |-> price, orders |-> orders.val])

\* Faulty variant: tombstone indices are taken as one-based.
IsRemovedMut(removed_nodes, idx) == (idx + 1) \in removed_nodes
\* removed_nodes.contains(i)
IsRemoved(removed_nodes, idx) == idx \in removed_nodes

\* nodes.iter().enumerate().filter(..).map(..).collect(), from index idx on.
RECURSIVE Surviving(_, _, _)
Surviving(nodes, removed_nodes, idx) ==
    IF idx >= Len(nodes) THEN <<>>
    ELSE (IF IsRemoved(removed_nodes, idx) THEN <<>> ELSE <<nodes[idx + 1]>>)
             \o Surviving(nodes, removed_nodes, idx + 1)

\* Deserialize for OrderBookSide: every node is deserialized, then the
\* tombstoned ones are dropped.
OrderBookSide(raw) ==
    LET nodes == [k \in 1..Len(raw.nodes) |-> OrderPriceLevel(raw.nodes[k])]
        failed == {k \in 1..Len(raw.nodes) : nodes[k].tag # "Ok"}
        removed_nodes == {deserialize_from_str(str) : str \in raw.removed_nodes}
    IN  IF failed # {}
          THEN nodes[CHOOSE k \in failed : \A j \in failed : k <= j]
        ELSE IF -1 \in removed_nodes
          THEN DecodeErr("failed parsing string as usize")
        ELSE DecodeOk([levels |->
                 Surviving([k \in 1..Len(nodes) |-> nodes[k].val],
                           removed_nodes, 0)])

\* BTreeMap::insert and the for loop that fills the map of one side.
EmptyMap == [price \in {} |-> <<>>]
BTreeInsert(map, key, value) ==
    [price \in DOMAIN map \cup {key} |->
        IF price = key THEN value ELSE map[price]]
RECURSIVE InsertLevels(_, _, _)
InsertLevels(res, levels, k) ==
    IF k > Len(levels) THEN res
    ELSE InsertLevels(BTreeInsert(res, levels[k].price, levels[k].orders),
                      levels, k + 1)

\* An optional field of the snapshot, and the map decoded from it.
None == [is_some |-> FALSE, val |-> <<>>]
Some(val) == [is_some |-> TRUE, val |-> val]
SideMap(field) ==
    IF ~field.is_some THEN DecodeOk(EmptyMap)
    ELSE LET book_side == OrderBookSide(field.val)
         IN  IF book_side.tag # "Ok" THEN book_side
             ELSE DecodeOk(InsertLevels(EmptyMap, book_side.val.levels, 1))

\* The end of OrderBookVisitor::visit_map, with both fields decoded.
BuildBook(raw, bids, asks) ==
    IF bids.tag # "Ok" THEN bids
    ELSE IF asks.tag # "Ok" THEN asks
    ELSE IF ~raw.bids.is_some /\ ~raw.asks.is_some
      THEN DecodeErr("either asks or bids needs to be provided")
    ELSE DecodeOk([id |-> raw.id, instrument |-> raw.instrument,
                   bids |-> bids.val, asks |-> asks.val, type_tags |-> <<>>])

\* Deserialize for OrderBook.
OrderBook(raw) == BuildBook(raw, SideMap(raw.bids), SideMap(raw.asks))

\* book.type_tags.extend(types) on a decoded book.
ExtendTypeTags(decoded, types) ==
    IF decoded.tag # "Ok" THEN decoded
    ELSE DecodeOk([decoded.val EXCEPT !.type_tags = @ \o types])

\* fetch_orderbook_side: the resource must exist and deserialize.
fetch_orderbook_side(resource) ==
    IF ~resource.is_some THEN DecodeErr("book not found")
    ELSE ExtendTypeTags(OrderBook(resource.data), resource.type_params)

\* bids_book.asks = asks, once both sides are fetched.
SetAsks(bids_book, asks_book) ==
    IF bids_book.tag # "Ok" THEN bids_book
    ELSE IF asks_book.tag # "Ok" THEN asks_book
    ELSE DecodeOk([bids_book.val EXCEPT !.asks = asks_book.val.asks])

\* Variant that takes an absent ask resource as an empty ask side.
fetch_orderbookMut(bids, asks) ==
    SetAsks(fetch_orderbook_side(bids),
            IF asks.is_some THEN fetch_orderbook_side(asks)
            ELSE DecodeOk([asks |-> EmptyMap]))
\* fetch_orderbook: both sides are fetched; the asks of the second replace
\* those of the first.
fetch_orderbook(bids, asks) ==
    SetAsks(fetch_orderbook_side(bids), fetch_orderbook_side(asks))

\* ---- snapshots the ledger may hold ------------------------------------
Entry(next, vec) == [next |-> [value |-> next], value |-> [vec |-> vec]]
Queue(head, nodes) == [head |-> [value |-> head], nodes |-> nodes]
IdxStrs == {IdxStr(k) : k \in 0..MaxEntries} \cup {U64MaxStr}
\* A Move option holds no element or one.
Vecs == {<<>>} \cup {<<o>> : o \in RawOrders}
RawEntries == {Entry(next, vec) : next \in IdxStrs, vec \in Vecs}
\* The queues of up to max entries.
RawQueues(max) ==
    UNION {{Queue(head, nodes) : head \in IdxStrs,
                                 nodes \in [1..n -> RawEntries]} :
             n \in 0..max}
Keys == {<<"1", "0", "0">>, <<"9", "9">>, <<"x">>}
RawLevels(max) == [key : Keys, value : RawQueues(max)]

\* Queues of the side snapshots: empty, one order, two orders with the
\* second entry first, an empty container, a head out of range, a cycle.
SideQueues ==
    {Queue(U64MaxStr, <<>>),
     Queue(IdxStr(0), <<Entry(U64MaxStr, <<RawOrder(1)>>)>>),
     Queue(IdxStr(1), <<Entry(U64MaxStr, <<RawOrder(1)>>),
                        Entry(IdxStr(0), <<RawOrder(2)>>)>>),
     Queue(IdxStr(0), <<Entry(U64MaxStr, <<>>)>>),
     Queue(IdxStr(1), <<>>),
     Queue(IdxStr(0), <<Entry(IdxStr(0), <<RawOrder(1)>>)>>)}
SideLevels == [key : {<<"1", "0", "0">>, <<"9", "9">>}, value : SideQueues]
RawSides ==
    [nodes : SeqsUpTo(SideLevels, MaxNodes),
     removed_nodes : SUBSET {IdxStr(k) : k \in 0..MaxNodes}]

\* Sides of the resources: one level at 100 with one order, one level
\* whose queue entry holds an empty container, and two levels at 100 with
\* one order each.
BookSides ==
    {[nodes |-> <<[key |-> <<"1", "0", "0">>,
                   value |-> Queue(IdxStr(0),
                                   <<Entry(U64MaxStr, <<RawOrder(1)>>)>>)]>>,
      removed_nodes |-> {}],
     [nodes |-> <<[key |-> <<"1", "0", "0">>,
                   value |-> Queue(IdxStr(0), <<Entry(U64MaxStr, <<>>)>>)]>>,
      removed_nodes |-> {}],
     [nodes |-> <<[key |-> <<"1", "0", "0">>,
                   value |-> Queue(IdxStr(0),
                                   <<Entry(U64MaxStr, <<RawOrder(1)>>)>>)],
                  [key |-> <<"1", "0", "0">>,
                   value |-> Queue(IdxStr(0),
                                   <<Entry(U64MaxStr, <<RawOrder(2)>>)>>)]>>,
      removed_nodes |-> {}]}
Instruments == {"APT/USDC", "BTC/USDC"}
TypeParams == <<"Base", "Quote">>
RawBooks ==
    [id : BookIds, instrument : Instruments,
     bids : {None} \cup {Some(sd) : sd \in BookSides},
     asks : {None} \cup {Some(sd) : sd \in BookSides}]
NoResource == [is_some |-> FALSE, data |-> <<>>, type_params |-> <<>>]
Resources ==
    {NoResource} \cup
    {[is_some |-> TRUE, data |-> data, type_params |-> TypeParams] :
        data \in RawBooks}

\* ---- actions -----------------------------------------------------------
\* serde deserializes the price level in hand.
DecodeLevel ==
    /\ level.tag = "None"
    /\ level' = OrderPriceLevel(level_json)
    /\ UNCHANGED <<subVars, projVars, level_json, side_json, side,
                   bids_resource, asks_resource, book>>

\* serde deserializes the book side in hand.
DecodeSide ==
    /\ side.tag = "None"
    /\ side' = OrderBookSide(side_json)
    /\ UNCHANGED <<subVars, projVars, level_json, level, side_json,
                   bids_resource, asks_resource, book>>

\* The ledger sets or removes a side resource of the book owner.
PublishBids ==
    /\ \E resource \in Resources : bids_resource' = resource
    /\ book' = NotDecoded
    /\ UNCHANGED <<subVars, projVars, level_json, level, side_json, side,
                   asks_resource>>

PublishAsks ==
    /\ \E resource \in Resources : asks_resource' = resource
    /\ book' = NotDecoded
    /\ UNCHANGED <<subVars, projVars, level_json, level, side_json, side,
                   bids_resource>>

\* A caller invokes fetch_orderbook and both REST calls are answered.
FetchOrderbook ==
    /\ book' = fetch_orderbook(bids_resource, asks_resource)
    /\ UNCHANGED <<subVars, projVars, level_json, level, side_json, side,
                   bids_resource, asks_resource>>

\* A caller invokes fetch_orderbook and a REST call fails.
FetchOrderbookRestError ==
    /\ book' = DecodeErr("rest")
    /\ UNCHANGED <<subVars, projVars, level_json, level, side_json, side,
                   bids_resource, asks_resource>>

(***************************************************************************)
(* Specifications.                                                         *)
(***************************************************************************)
SubInit ==
    /\ pc = "idle"
    /\ i = 0
    /\ ledger_seq = 0
    /\ sequence_number = ledger_seq      \* connect reads it from the ledger
    /\ tx_seq = 0
    /\ api_error = "None"
    /\ result = NoResult
    /\ mempool = {}
    /\ tx_events = <<>>
    /\ calls = 0
    /\ attempts = 0
    /\ accepted = 0
    /\ executed = 0
    /\ first = NoAttempt
    /\ last = NoAttempt
    /\ seq_writes = 0
    /\ start_seq = sequence_number
    /\ after_ok = 0

ProjInit ==
    /\ place_log = <<>>
    /\ amend_log = <<>>
    /\ cancel_log = <<>>
    /\ fill_log = <<>>
    /\ query = NoQuery
    /\ reply = NoReply

LevelInit ==
    /\ level_json = [key |-> <<"1", "0", "0">>, value |-> Queue(U64MaxStr, <<>>)]
    /\ level = NotDecoded
SideInit ==
    /\ side_json = [nodes |-> <<>>, removed_nodes |-> {}]
    /\ side = NotDecoded
BookInit ==
    /\ bids_resource = NoResource
    /\ asks_resource = NoResource
    /\ book = NotDecoded

Init == SubInit /\ ProjInit /\ LevelInit /\ SideInit /\ BookInit

Next ==
    \/ build_and_submit_tx
    \/ LoopHead
    \/ SubmitAccepted
    \/ SubmitRejected
    \/ ResyncFetched
    \/ ResyncFetchFailed
    \/ LedgerCommit
    \/ WaitFinalized
    \/ WaitFailed

Spec == Init /\ [][Next]_vars

NextProj ==
    \/ EmitPlaceOrder
    \/ EmitAmendOrder
    \/ EmitCancelOrder
    \/ EmitFill
    \/ GetOrder
    \/ GetPlaceEvent
    \/ GetAmendEvents
    \/ GetFillEvents
    \/ FetchAllPlaceEvents
    \/ FetchAllAmendEvents
    \/ FetchAllCancelEvents
    \/ FetchAllFillEvents

SpecProj == Init /\ [][NextProj]_vars

\* The price level decoder applied to every snapshot of the bounded set.
InitLevel ==
    /\ SubInit /\ ProjInit /\ SideInit /\ BookInit
    /\ level_json \in RawLevels(MaxEntries)
    /\ level = NotDecoded
NextLevel == DecodeLevel
SpecLevel == InitLevel /\ [][NextLevel]_vars

\* The book side decoder applied to every snapshot of the bounded set.
InitSide ==
    /\ SubInit /\ ProjInit /\ LevelInit /\ BookInit
    /\ side_json \in RawSides
    /\ side = NotDecoded
NextSide == DecodeSide
SpecSide == InitSide /\ [][NextSide]_vars

\* fetch_orderbook against the resources of the book owner.
NextBook ==
    \/ PublishBids
    \/ PublishAsks
    \/ FetchOrderbook
    \/ FetchOrderbookRestError
SpecBook == Init /\ [][NextBook]_vars

(***************************************************************************)
(* Claims about the transaction submitter (checked under Spec).            *)
(***************************************************************************)
PostAcceptance == {"WaitFailed", "NotUserTx", "DecodeFailed"}

\* C1: within one build_and_submit_tx call at most one attempt of the retry
\* series is accepted by the ledger, so the payload is never executed twice
\* by a single call.
C1_AtMostOneAccepted == accepted <= 1 /\ executed <= 1

C3_ResyncToMax ==
    (last.kind \in {"InvalidTransactionUpdate", "SequenceNumberTooOld",
                    "VmError"} /\ last.fetched >= 0) =>
        /\ sequence_number =
               (IF last.fetched >= last.local_before + 1
                  THEN last.fetched ELSE last.local_before + 1)
        /\ sequence_number >= last.local_before + 1
        /\ sequence_number >= last.fetched
        /\ pc \in {"submit", "resync", "wait"} => tx_seq = sequence_number

C3_Witness ==
    /\ last.kind = "VmError"
    /\ last.fetched >= 0
    /\ last.fetched <= last.local_before
    /\ pc = "submit"
    /\ tx_seq = last.local_before + 1

\* C4: one build_and_submit_tx call makes at most SUBMIT_ATTEMPTS (10)
\* attempts, returns as soon as one attempt succeeds, and makes no attempt
\* after a success.
C4_AtMostTenAttempts ==
    /\ attempts <= SUBMIT_ATTEMPTS
    /\ after_ok = 0
    /\ last.kind = "Ok" => (pc = "done" /\ result.tag = "Ok"
                            /\ result.att = last.att)

C4_Witness ==
    /\ pc = "done"
    /\ result.tag = "Ok"
    /\ attempts = SUBMIT_ATTEMPTS

\* C5: when all 10 attempts of a call fail, the error returned is the error
\* of the 10th attempt.
C5_LastErrorReturned ==
    (pc = "done" /\ attempts = SUBMIT_ATTEMPTS /\ last.kind # "Ok") =>
        /\ result.tag = "Err"
        /\ last.att = SUBMIT_ATTEMPTS - 1
        /\ result.kind = last.kind
        /\ result.att = SUBMIT_ATTEMPTS - 1

C5_Witness ==
    /\ pc = "done"
    /\ attempts = SUBMIT_ATTEMPTS
    /\ result.tag = "Err"
    /\ result.kind = "WaitFailed"
    /\ first.kind = "OtherApi"

\* C6: when the first attempt is rejected with stale-sequence and the second
\* is accepted and finalized, the call returns that one finalized
\* transaction, and the local sequence number was written exactly once in
\* the call, by the resync to max(fetched, local + 1).
C6_StaleThenAccepted ==
    (first.kind = "SequenceNumberTooOld" /\ last.kind = "Ok" /\ last.att = 1) =>
        /\ pc = "done"
        /\ result.tag = "Ok"
        /\ result.seq = Max(first.fetched, start_seq + 1)
        /\ accepted = 1
        /\ executed = 1
        /\ seq_writes = 1
        /\ sequence_number = Max(first.fetched, start_seq + 1)

C6_Witness ==
    /\ first.kind = "SequenceNumberTooOld"
    /\ last.kind = "Ok"
    /\ last.att = 1
    /\ pc = "done"
    /\ sequence_number = start_seq + 1

\* C7: an await-finality failure, a finalized transaction that is not a user
\* transaction, or an event decode failure is never retried: the call has
\* returned that error and the payload is not submitted again.
C7_PostAcceptanceErrorNotRetried ==
    last.kind \in PostAcceptance =>
        /\ pc = "done"
        /\ result = Err(last.kind, last.att)

\* C8: the events of a returned LaminarTransaction are, in transaction
\* order, exactly the decoded events whose type is a struct published at the
\* laminar address; no event of another address or of a non-struct type is
\* among them.
C8_OnlyLaminarEvents ==
    result.tag = "Ok" =>
        LET kept == SelectSeq(tx_events,
                              LAMBDA e : e.typ = StructAt(laminar))
        IN  /\ Len(result.events) = Len(kept)
            /\ \A k \in 1..Len(kept) :
                 /\ result.events[k] = LaminarEvent(kept[k].data)
                 /\ result.events[k].variant # "Error"

C8_Witness ==
    /\ result.tag = "Ok"
    /\ Len(tx_events) = 2
    /\ tx_events[1].typ = StructAt("other")
    /\ Len(result.events) = 1
    /\ result.events[1].variant = "PlaceOrder"

(***************************************************************************)
(* Claims about the order state projector (checked under SpecProj).        *)
(***************************************************************************)
\* The decoded entries of an event log field that belong to one order.
OfOrder(log, field, order_id) ==
    SelectSeq([k \in 1..Len(log) |-> Deserialize(field, log[k]).val],
              LAMBDA e : e.order_id = order_id)

\* C9: get_order(order_id) returns as (price, size) the fields of the last
\* AmendOrder event of that order, or the PlaceOrder event's price and size
\* when that order has no amend event, whatever other orders' amend events
\* the log holds.
C9_PriceSizeOfOwnLastAmend ==
    (query.op = "get_order" /\ reply.tag = "Ok") =>
        LET own == OfOrder(amend_log, "amend_order_events", query.id)
            placed == OfOrder(place_log, "place_order_events", query.id)
        IN  IF own # <<>>
              THEN /\ reply.order.price = Last(own).price
                   /\ reply.order.size = Last(own).size
              ELSE /\ reply.order.price = placed[1].price
                   /\ reply.order.size = placed[1].size

\* C10: get_order(order_id) returns as remaining_size the remaining_size of
\* the last Fill event of that order, and 0 when that order has no fill
\* event, whatever other orders' fill events the log holds.
C10_RemainingOfOwnLastFill ==
    (query.op = "get_order" /\ reply.tag = "Ok") =>
        LET own == OfOrder(fill_log, "fill_events", query.id)
        IN  reply.order.remaining_size =
                (IF own # <<>> THEN Last(own).remaining_size ELSE 0)

\* The raw entries of a log that carry the given order id.
RawOfOrder(log, order_id) == SelectSeq(log, LAMBDA e : e.order_id = order_id)
\* The decoded entries of a whole event log field, in emission order.
Decoded(log, field) == [k \in 1..Len(log) |-> Deserialize(field, log[k]).val]
\* The log a fetch_all_*_events query reads, and its event store field.
FetchOps ==
    {"fetch_all_place_events", "fetch_all_amend_events",
     "fetch_all_cancel_events", "fetch_all_fill_events"}
LogOfOp(op) ==
    CASE op \in {"fetch_all_place_events", "get_place_event"} -> place_log
      [] op \in {"fetch_all_amend_events", "get_amend_events"} -> amend_log
      [] op = "fetch_all_cancel_events" -> cancel_log
      [] op \in {"fetch_all_fill_events", "get_fill_events"} -> fill_log
FieldOfOp(op) ==
    CASE op \in {"fetch_all_place_events", "get_place_event"} ->
             "place_order_events"
      [] op \in {"fetch_all_amend_events", "get_amend_events"} ->
             "amend_order_events"
      [] op = "fetch_all_cancel_events" -> "cancel_order_events"
      [] op \in {"fetch_all_fill_events", "get_fill_events"} -> "fill_events"

\* C11: the state returned by get_order is Closed exactly when the returned
\* remaining_size is 0 or the log holds a CancelOrder event of the order;
\* otherwise it is PartiallyFilled exactly when the returned fill list is
\* non-empty; otherwise it is Open.  A placed order whose log holds one fill
\* of remaining_size 4 and no cancel is PartiallyFilled with remaining_size
\* 4, and a placed order with a cancel and no fills is Closed.
C11_StateOfOrder ==
    (query.op = "get_order" /\ reply.tag = "Ok") =>
        LET o == reply.order
            cancelled == RawOfOrder(cancel_log, query.id) # <<>>
            closed == o.remaining_size = 0 \/ cancelled
        IN  /\ o.state \in {"Closed", "PartiallyFilled", "Open"}
            /\ o.state = "Closed" <=> closed
            /\ o.state = "PartiallyFilled" <=> (~closed /\ o.fills # <<>>)
            /\ o.state = "Open" <=> (~closed /\ o.fills = <<>>)
            /\ ( /\ Len(fill_log) = 1
                 /\ fill_log[1].order_id = query.id
                 /\ fill_log[1].remaining_size = <<"4">>
                 /\ ~cancelled )
                 => (o.state = "PartiallyFilled" /\ o.remaining_size = 4)
            /\ (cancelled /\ fill_log = <<>>) => o.state = "Closed"

\* C11 witness: get_order answered for a placed order with one fill of
\* remaining_size 4 and no cancel.
C11_Witness ==
    /\ query.op = "get_order"
    /\ reply.tag = "Ok"
    /\ Len(fill_log) = 1
    /\ fill_log[1].order_id = query.id
    /\ fill_log[1].remaining_size = <<"4">>
    /\ cancel_log = <<>>
    /\ reply.order.state = "PartiallyFilled"

\* C12: when the place log holds no PlaceOrder event of the requested id,
\* get_order, get_place_event, get_amend_events and get_fill_events return
\* the error "order not found", with no Order and no event list.
C12_NotFoundWithoutPlace ==
    ( /\ query.op \in {"get_order", "get_place_event", "get_amend_events",
                       "get_fill_events"}
      /\ RawOfOrder(place_log, query.id) = <<>> )
        => /\ reply.tag = "Err"
           /\ reply.error = "order not found"
           /\ reply.order = NoOrder
           /\ reply.events = <<>>

\* C12 witness: get_amend_events answered for an id that has an amend event
\* and no place event.
C12_Witness ==
    /\ query.op = "get_amend_events"
    /\ RawOfOrder(place_log, query.id) = <<>>
    /\ RawOfOrder(amend_log, query.id) # <<>>
    /\ reply.tag = "Err"

\* C13: get_fill_events and get_amend_events return only events of the given
\* order id, the fetch_all_*_events calls return only events of the given
\* book id, and the fills carried by the Order of get_order are all fills of
\* that order.
C13_OnlyOwnEvents ==
    reply.tag = "Ok" =>
        /\ query.op \in {"get_fill_events", "get_amend_events"} =>
             \A k \in 1..Len(reply.events) :
                 reply.events[k].order_id = query.id
        /\ query.op \in FetchOps =>
             \A k \in 1..Len(reply.events) :
                 reply.events[k].book_id = query.id
        /\ query.op = "get_order" =>
             \A k \in 1..Len(reply.order.fills) :
                 reply.order.fills[k].order_id = query.id

AppendsFillOf(order_id) ==
    /\ place_log' = place_log /\ amend_log' = amend_log
    /\ cancel_log' = cancel_log
    /\ Len(fill_log') = Len(fill_log) + 1
    /\ SubSeq(fill_log', 1, Len(fill_log)) = fill_log
    /\ Last(fill_log').order_id = order_id
    /\ LET own == OfOrder(fill_log, "fill_events", order_id)
       IN  own # <<>> =>
             deserialize_from_str(Last(fill_log').remaining_size)
                 <= Last(own).remaining_size

\* What get_order projects for the order in the current history.
Projected(order_id) ==
    get_order(place_log, amend_log, cancel_log, fill_log, order_id)

\* C15: appending one more Fill event of an order to its history never
\* makes the remaining_size projected by get_order larger than before.
C15_RemainingNeverIncreases ==
    [][\A order_id \in OrderIds :
          (AppendsFillOf(order_id) /\ Projected(order_id).tag = "Ok")
            => Projected(order_id)'.order.remaining_size
                 <= Projected(order_id).order.remaining_size]_vars

\* C16: once get_order projects Closed for a history, it still projects
\* Closed after a further Fill event of the order is appended.
C16_ClosedIsTerminal ==
    [][\A order_id \in OrderIds :
          ( /\ AppendsFillOf(order_id)
            /\ Projected(order_id).tag = "Ok"
            /\ Projected(order_id).order.state = "Closed" )
            => Projected(order_id)'.order.state = "Closed"]_vars

(***************************************************************************)
(* Claims about the order book decoder (SpecLevel, SpecSide, SpecBook).    *)
(***************************************************************************)
Reverse(s) == [k \in 1..Len(s) |-> s[Len(s) + 1 - k]]

\* path, a list of positions of the entry array, is the chain of the queue:
\* it starts at head, follows next, and its last entry points at u64::MAX.
IsChain(queue, path) ==
    IF path = <<>> THEN GuardedIdx(queue.head) = U64_MAX
    ELSE /\ path[1] = GuardedIdx(queue.head)
         /\ \A k \in 1..(Len(path) - 1) :
                path[k + 1] = GuardedIdx(queue.nodes[path[k] + 1].next)
         /\ GuardedIdx(queue.nodes[path[Len(path)] + 1].next) = U64_MAX
Paths(queue) == SeqsUpTo(0..(Len(queue.nodes) - 1), Len(queue.nodes))
\* A valid queue: its chain exists and every entry on it holds one order.
ValidQueue(queue) ==
    \E path \in Paths(queue) :
        /\ IsChain(queue, path)
        /\ \A k \in 1..Len(path) : Len(queue.nodes[path[k] + 1].value.vec) = 1
ChainOf(queue) == CHOOSE path \in Paths(queue) : IsChain(queue, path)
\* The queue with the linkage of its chain reversed; other entries as is.
Reversed(queue, path) ==
    IF path = <<>> THEN queue
    ELSE [head |-> [value |-> IdxStr(path[Len(path)])],
          nodes |-> [j \in 1..Len(queue.nodes) |->
              IF \E k \in 1..Len(path) : path[k] = j - 1
                THEN LET k == CHOOSE n \in 1..Len(path) : path[n] = j - 1
                     IN  [queue.nodes[j] EXCEPT !.next.value =
                            IF k = 1 THEN U64MaxStr ELSE IdxStr(path[k - 1])]
                ELSE queue.nodes[j]]]

\* C17: a decoded book side holds exactly the nodes whose positional index
\* is not in the tombstone set, each as its decoded price level, in node
\* array order; a tombstoned node contributes no level.
C17_TombstonesDropped ==
    side.tag = "Ok" =>
        LET keep == {k \in 1..Len(side_json.nodes) :
                        IdxStr(k - 1) \notin side_json.removed_nodes}
        IN  /\ Len(side.val.levels) = Cardinality(keep)
            /\ \A k \in keep :
                 side.val.levels[Cardinality({j \in keep : j <= k})]
                     = OrderPriceLevel(side_json.nodes[k]).val

\* C17 witness: a side of two different nodes, the first one tombstoned,
\* decoded to the level of the second.
C17_Witness ==
    /\ side.tag = "Ok"
    /\ Len(side_json.nodes) = 2
    /\ side_json.nodes[1].key # side_json.nodes[2].key
    /\ side_json.removed_nodes = {IdxStr(0)}
    /\ Len(side.val.levels) = 1
    /\ side.val.levels[1].price = deserialize_from_str(side_json.nodes[2].key)
    /\ side.val.levels[1].orders # <<>>

\* C18: for a valid queue snapshot the decoded order list is the orders met
\* along the chain from head to the sentinel, one per visited entry and in
\* that order, so entries off the chain do not appear; the queue with the
\* chain's linkage reversed decodes to the reversed list.
C18_FifoTraversal ==
    ( /\ level.tag # "None"
      /\ deserialize_from_str(level_json.key) >= 0
      /\ ValidQueue(level_json.value) )
        => LET queue == level_json.value
               path == ChainOf(queue)
           IN  /\ level.tag = "Ok"
               /\ level.val.orders =
                    [k \in 1..Len(path) |->
                        Order(queue.nodes[path[k] + 1].value.vec[1])]
               /\ OrderQueue(Reversed(queue, path)).tag = "Ok"
               /\ OrderQueue(Reversed(queue, path)).val
                    = Reverse(level.val.orders)

\* C18 witness: a decoded level whose chain visits the second entry of the
\* array before the first, with two different orders.
C18_Witness ==
    /\ level.tag = "Ok"
    /\ ValidQueue(level_json.value)
    /\ GuardedIdx(level_json.value.head) = 1
    /\ Len(level.val.orders) = 2
    /\ level.val.orders[1].id # level.val.orders[2].id

\* The answer in hand came from fetch_orderbook with both REST calls served.
Fetched == book.tag # "None" /\ book.error # "rest"

\* C19: fetch_orderbook succeeds when only one of the two side resources
\* exists, with an empty map for the missing side, and fails with "book not
\* found" only when both are absent.
C19_OneSideSuffices ==
    Fetched =>
        /\ ( /\ bids_resource.is_some /\ ~asks_resource.is_some
             /\ fetch_orderbook_side(bids_resource).tag = "Ok" )
             => (book.tag = "Ok" /\ book.val.asks = EmptyMap)
        /\ ( /\ asks_resource.is_some /\ ~bids_resource.is_some
             /\ fetch_orderbook_side(asks_resource).tag = "Ok" )
             => (book.tag = "Ok" /\ book.val.bids = EmptyMap)
        /\ book.error = "book not found"
             => (~bids_resource.is_some /\ ~asks_resource.is_some)

\* C19 as the code has it: fetch_orderbook returns a book only when both
\* side resources exist, and fails with "book not found" when the bid
\* resource is absent or when the bid resource decodes and the ask resource
\* is absent; a side is an empty map when the resource it is read from
\* lacks that side's field.
C19_BothResourcesRequired ==
    Fetched =>
        /\ book.tag = "Ok" => (bids_resource.is_some /\ asks_resource.is_some)
        /\ ~bids_resource.is_some => book = DecodeErr("book not found")
        /\ ( /\ bids_resource.is_some /\ ~asks_resource.is_some
             /\ OrderBook(bids_resource.data).tag = "Ok" )
             => book = DecodeErr("book not found")
        /\ book.error = "book not found"
             => (~bids_resource.is_some \/ ~asks_resource.is_some)
        /\ (book.tag = "Ok" /\ ~bids_resource.data.bids.is_some)
             => book.val.bids = EmptyMap
        /\ (book.tag = "Ok" /\ ~asks_resource.data.asks.is_some)
             => book.val.asks = EmptyMap

\* C19 witness: fetch_orderbook answered "book not found" while the bid
\* resource exists and decodes and the ask resource is absent.
C19_Witness ==
    /\ Fetched
    /\ bids_resource.is_some
    /\ OrderBook(bids_resource.data).tag = "Ok"
    /\ ~asks_resource.is_some
    /\ book = DecodeErr("book not found")

\* C20: whenever fetch_orderbook returns a book, the bid and ask resources
\* carry the same id and the same instrument, which are those of the book.
C20_SnapshotsAgree ==
    (Fetched /\ book.tag = "Ok") =>
        /\ bids_resource.data.id = asks_resource.data.id
        /\ bids_resource.data.instrument = asks_resource.data.instrument
        /\ book.val.id = asks_resource.data.id
        /\ book.val.instrument = asks_resource.data.instrument

\* path is a walk of the queue: it starts at head, follows next, and every
\* entry on it holds an order.
IsWalk(queue, path) ==
    /\ path # <<>> => path[1] = GuardedIdx(queue.head)
    /\ \A k \in 1..(Len(path) - 1) :
           path[k + 1] = GuardedIdx(queue.nodes[path[k] + 1].next)
    /\ \A k \in 1..Len(path) : queue.nodes[path[k] + 1].value.vec # <<>>
\* The index the walk turns to after path.
NextAfter(queue, path) ==
    IF path = <<>> THEN GuardedIdx(queue.head)
    ELSE GuardedIdx(queue.nodes[path[Len(path)] + 1].next)
\* The chain of the queue reaches an index that is neither the sentinel nor
\* a position of the entry array, or an entry whose container is empty.
ReachesMalformed(queue) ==
    \E path \in Paths(queue) :
        /\ IsWalk(queue, path)
        /\ LET n == NextAfter(queue, path)
           IN  /\ n # U64_MAX
               /\ \/ n \notin 0..(Len(queue.nodes) - 1)
                  \/ queue.nodes[n + 1].value.vec = <<>>
\* The positions (from 1) of the nodes of the side in hand that are not
\* tombstoned.
SurvivingNodes ==
    {k \in 1..Len(side_json.nodes) :
        IdxStr(k - 1) \notin side_json.removed_nodes}

\* C21: when the chain of a surviving node of a side reaches an empty
\* container or an index that is neither the sentinel nor a position of
\* the entry array, decoding the side returns an error and no value.
C21_AllOrNothing ==
    ( /\ side.tag # "None"
      /\ \E k \in SurvivingNodes : ReachesMalformed(side_json.nodes[k].value) )
        => (side.tag = "Err" /\ side.val = <<>>)

\* C22: decoding a price level always returns, with the level or with an
\* error, also for a queue whose next pointers form a cycle.
C22_TraversalTerminates == level.tag \in {"None", "Ok", "Err"}

\* The surviving nodes of a side of a resource, decoded.
LevelsOf(field) ==
    {OrderPriceLevel(field.val.nodes[k]).val :
        k \in {j \in 1..Len(field.val.nodes) :
                  IdxStr(j - 1) \notin field.val.removed_nodes}}

\* C23: in a fetched book, every surviving node of a side is in that side's
\* map: its price is a key and maps to the node's decoded order list, and
\* the map has no other key.
C23_EveryLevelInMap ==
    (Fetched /\ book.tag = "Ok") =>
        /\ bids_resource.data.bids.is_some =>
             /\ \A lv \in LevelsOf(bids_resource.data.bids) :
                    /\ lv.price \in DOMAIN book.val.bids
                    /\ book.val.bids[lv.price] = lv.orders
             /\ DOMAIN book.val.bids
                  = {lv.price : lv \in LevelsOf(bids_resource.data.bids)}
        /\ asks_resource.data.asks.is_some =>
             /\ \A lv \in LevelsOf(asks_resource.data.asks) :
                    /\ lv.price \in DOMAIN book.val.asks
                    /\ book.val.asks[lv.price] = lv.orders
             /\ DOMAIN book.val.asks
                  = {lv.price : lv \in LevelsOf(asks_resource.data.asks)}

\* C30: a side whose surviving nodes all decode, and in which a tombstoned
\* node holds a malformed queue, decodes to the levels of the surviving
\* nodes.
C30_TombstonedNodeIgnored ==
    ( /\ side.tag # "None"
      /\ \A k \in SurvivingNodes :
             OrderPriceLevel(side_json.nodes[k]).tag = "Ok"
      /\ \E k \in (1..Len(side_json.nodes)) \ SurvivingNodes :
             ReachesMalformed(side_json.nodes[k].value) )
        => /\ side.tag = "Ok"
           /\ Len(side.val.levels) = Cardinality(SurvivingNodes)

(***************************************************************************)
(* Further claims about the transaction submitter (checked under Spec).    *)
(***************************************************************************)
\* C24: build_and_submit_tx never returns the fallback error "failed
\* submitting tx": the loop variable stays inside 0..SUBMIT_ATTEMPTS - 1,
\* and a finished call returned the first success or the error of the 10th
\* attempt.
C24_FallbackUnreachable ==
    /\ result.kind # "failed submitting tx"
    /\ i < SUBMIT_ATTEMPTS
    /\ pc = "done" =>
         \/ /\ result.tag = "Ok"
            /\ last.kind = "Ok"
            /\ result.att = last.att
            /\ after_ok = 0
         \/ /\ result.tag = "Err"
            /\ result.kind = last.kind
            /\ result.att = SUBMIT_ATTEMPTS - 1
            /\ attempts = SUBMIT_ATTEMPTS

\* C24 witness: a call whose 10th attempt failed on a transport error has
\* returned, with the loop variable at its last value.
C24_Witness ==
    /\ pc = "done"
    /\ i = SUBMIT_ATTEMPTS - 1
    /\ result = Err("Transport", SUBMIT_ATTEMPTS - 1)

\* The next sequence number of the account that no transaction has used:
\* the first one from the committed number on that is not in the mempool.
NextUnused ==
    CHOOSE n \in ledger_seq..(ledger_seq + Cardinality(mempool)) :
        /\ \A t \in mempool : t.seq # n
        /\ \A m \in ledger_seq..(n - 1) : \E t \in mempool : t.seq = m

\* C26: at the start of every attempt the local sequence number, with which
\* the transaction is signed, is not greater than the ledger's next unused
\* sequence number of the account.
C26_LocalNotAhead == pc = "submit" => tx_seq <= NextUnused

\* C27: the local sequence number changes only in the step that ends a
\* retryable rejection with the authoritative number fetched; an attempt
\* that follows any other outcome is signed with the same number as the
\* attempt before it.
C27_WrittenOnlyOnResync ==
    [][ /\ sequence_number' # sequence_number =>
              /\ pc = "resync"
              /\ last'.kind \in Retryable
              /\ last'.fetched >= 0
        /\ ( /\ pc = "loop" /\ pc' = "submit"
             /\ last.kind \notin Retryable \cup {"None"} )
              => tx_seq' = last.seq ]_vars

\* C27 witness: the second attempt of a call, after an attempt that the
\* ledger accepted and whose finality wait failed, signed with the same
\* number and no write to the local number.
C27_Witness ==
    /\ pc = "submit"
    /\ attempts = 2
    /\ last.kind = "WaitFailed"
    /\ tx_seq = last.seq
    /\ seq_writes = 0
    /\ sequence_number = start_seq

\* C28: after build_and_submit_tx returned Ok, the local sequence number is
\* greater than the sequence number of the transaction it returned.
C28_LocalAboveAccepted ==
    (pc = "done" /\ result.tag = "Ok") => sequence_number > result.seq

\* C29: the local sequence number never decreases.
C29_NeverDecreases == [][sequence_number' >= sequence_number]_vars

\* C29 witness: a resync that fetched a number lower than the local one
\* has raised the local number.
C29_Witness ==
    /\ last.kind \in Retryable
    /\ last.fetched >= 0
    /\ last.fetched < last.local_before
    /\ sequence_number > last.local_before

(***************************************************************************)
(* Further claims about the projector (checked under SpecProj).            *)
(***************************************************************************)
\* C25: get_order never returns state Open; an order for which it returns
\* no fills has remaining_size 0 and state Closed.
C25_NeverOpen ==
    (query.op = "get_order" /\ reply.tag = "Ok") =>
        /\ reply.order.state \in {"Closed", "PartiallyFilled"}
        /\ reply.order.fills = <<>> =>
             (reply.order.remaining_size = 0 /\ reply.order.state = "Closed")

\* C25 witness: get_order answered for a placed order while the account has
\* no fill and no cancel event.
C25_Witness ==
    /\ query.op = "get_order"
    /\ reply.tag = "Ok"
    /\ fill_log = <<>>
    /\ cancel_log = <<>>
    /\ amend_log # <<>>
    /\ reply.order.state = "Closed"

====
